---- MODULE Spec2Model ----
(***************************************************************************)
(* Document-to-flashcard pipeline of OpenDeck: the Celery task             *)
(* process_documents_task, the orchestrator                                *)
(* DocumentProcessorService.process_documents and the retry behaviour of   *)
(* the three AI providers, as a state machine over the documents table,    *)
(* the deck row and the local variables of each task execution.            *)
(***************************************************************************)
EXTENDS Integers, Sequences, FiniteSets, TLC

(* ---------------------------- bounds ----------------------------------- *)
NumDocs == 1        \* documents of the enqueued batch
MaxFaults == 1      \* storage / database / extraction faults injected per behaviour
MaxTimeouts == 1    \* soft time limit expirations per behaviour
MaxChunks == 2      \* chunks a document may be split into by the local provider
MaxRespCards == 1   \* valid cards held by one well-formed backend response
MaxPages == 3       \* units (pages) of a document handed to _chunk_document
MaxChunkCards == 2  \* valid cards held by the response to one chunk
MaxCardsArg == 2    \* max_cards handed to _generate_with_chunking
MaxCandidates == 2  \* candidates held by a response handed to the validator
DocNameLen == 5     \* characters of the document name ("a.pdf")
MaxTokens == 2      \* state tokens generate_state can hand out
MaxRedisFaults == 1 \* Redis commands that fail per behaviour

(* ----------------------- program constants ----------------------------- *)
max_retries == 3            \* @celery_app.task(max_retries=3)
stop_after_attempt == 3     \* tenacity stop_after_attempt(3)
max_cards == 20             \* generate_flashcards(..., max_cards=20)
cleanup_max_retries == 3    \* @celery_app.task(max_retries=3) of the cleanup task
max_context_tokens == 4096  \* OllamaProvider.max_context_tokens
min_source_len == 5         \* FlashcardData.__post_init__: len(self.source.strip()) < 5

\* a task message is executed by one worker or, delivered twice, by two
Execs == {1, 2}
Docs == 1..NumDocs
document_ids == [i \in 1..NumDocs |-> i]

DocumentStatus == {"uploaded", "processing", "completed", "failed"}
Providers == {"openai", "anthropic", "ollama"}

VARIABLES
    provider,             \* settings.ai_provider
    docStatus,            \* documents.status ("absent": no such row)
    processedAt,          \* documents.processed_at is not NULL
    errorMessage,         \* documents.error_message ("none": NULL)
    cardRows,             \* rows of the cards table that belong to the deck
    deckCardCount,        \* decks.card_count
    faults,               \* faults injected so far
    pc,                   \* position of each task execution
    retries,              \* self.request.retries
    idx,                  \* position of the for loop in document_ids
    document,             \* the local Document object of the loop body
    marked,               \* this attempt has written PROCESSING for the current document
    gen,                  \* state of the provider call in progress
    flashcards,           \* len(flashcards) returned by generate_flashcards
    exc,                  \* exception being handled
    total_cards, successful_documents, failed_documents,
    softExpired,          \* the soft time limit of this execution has fired
    timeouts,             \* soft time limit expirations so far
    countBefore,          \* decks.card_count when process_documents was entered
    configOk,             \* the configured provider can be constructed (credentials present)
    deckExists,           \* deck_repo.get(deck_id, user_id) finds the target deck
    countdown,            \* countdown of the last self.retry of each execution (0: none yet)
    cleanup,              \* cleanup_orphaned_files_task: position and self.request.retries
    chunker,              \* locals of OllamaProvider._chunk_document / _generate_with_chunking
    validator,            \* locals of parse_flashcard_response
    oauth                 \* OAuthStateManager: the Redis keys and the calls in progress

dbVars == <<docStatus, processedAt, errorMessage, cardRows, deckCardCount>>
counterVars == <<total_cards, successful_documents, failed_documents>>
localVars == <<idx, document, marked, gen, flashcards, exc>>
\* everything but the locals of the chunked generation
mainVars == <<provider, configOk, deckExists, cleanup, countdown, docStatus,
              processedAt, errorMessage, cardRows, deckCardCount, faults, pc,
              retries, idx, document, marked, gen, flashcards, exc, total_cards,
              successful_documents, failed_documents, softExpired, timeouts,
              countBefore>>
vars == <<validator, oauth, chunker, provider, configOk, deckExists, cleanup, countdown, docStatus, processedAt, errorMessage, cardRows, deckCardCount,
          faults, pc, retries, idx, document, marked, gen, flashcards, exc,
          total_cards, successful_documents, failed_documents, softExpired,
          timeouts, countBefore>>

NoDocument == [status |-> "none", processed_at |-> FALSE, error_message |-> "none"]
NoGen == [n |-> 0, chunk |-> 0, attempt |-> 0, acc |-> 0, last |-> "none",
          onlyTransport |-> TRUE]

\* no chunked generation is being followed statement by statement
NoChunker == [pc |-> "off", page_data |-> <<>>, max_cards |-> 0, pos |-> 0,
              chunks |-> <<>>, current_chunk_text |-> <<>>,
              current_chunk_pages |-> <<>>, current_size |-> 0, i |-> 0,
              all_flashcards |-> <<>>, calls |-> <<>>, result |-> <<>>]

\* the periodic cleanup task has not been started by the scheduler
NoCleanup == [pc |-> "off", retries |-> 0]
NoValidator == [pc |-> "off", response |-> [kind |-> "none", flashcards |-> <<>>],
                i |-> 0, flashcards |-> <<>>, kept |-> <<>>, exc |-> "none"]
NoOAuth == [pc |-> "off"]

Max(a, b) == IF a >= b THEN a ELSE b
Min(a, b) == IF a <= b THEN a ELSE b

Init ==
    /\ provider \in Providers
    /\ docStatus \in [Docs -> {"uploaded", "absent"}]
    /\ processedAt = [d \in Docs |-> FALSE]
    /\ errorMessage = [d \in Docs |-> "none"]
    /\ cardRows = 0
    /\ deckCardCount = 0
    /\ faults = 0
    /\ pc = [t \in Execs |-> IF t = 1 THEN "queued" ELSE "idle"]
    /\ retries = [t \in Execs |-> 0]
    /\ idx = [t \in Execs |-> 0]
    /\ document = [t \in Execs |-> NoDocument]
    /\ marked = [t \in Execs |-> FALSE]
    /\ gen = [t \in Execs |-> NoGen]
    /\ flashcards = [t \in Execs |-> 0]
    /\ exc = [t \in Execs |-> "none"]
    /\ total_cards = [t \in Execs |-> 0]
    /\ successful_documents = [t \in Execs |-> 0]
    /\ failed_documents = [t \in Execs |-> 0]
    /\ softExpired = [t \in Execs |-> FALSE]
    /\ timeouts = 0
    /\ countBefore = [t \in Execs |-> 0]
    /\ configOk \in (IF provider = "ollama" THEN {TRUE} ELSE BOOLEAN)
    /\ deckExists \in BOOLEAN
    /\ countdown = [t \in Execs |-> 0]
    /\ cleanup = NoCleanup
    /\ chunker = NoChunker
    /\ validator = NoValidator
    /\ oauth = NoOAuth

(* ------------------------- shared helpers ------------------------------ *)

\* the document the for loop of process_documents is at
CurDoc(t) == document_ids[idx[t]]

\* one injected fault (an I/O call of the step raises)
Fault == faults < MaxFaults /\ faults' = faults + 1

\* end of one iteration of `for doc_id in document_ids`
Advance(t) ==
    /\ idx' = [idx EXCEPT ![t] = @ + 1]
    /\ pc' = [pc EXCEPT ![t] = IF idx[t] + 1 > NumDocs THEN "deck" ELSE "lookup"]
    /\ document' = [document EXCEPT ![t] = NoDocument]
    /\ marked' = [marked EXCEPT ![t] = FALSE]
    /\ gen' = [gen EXCEPT ![t] = NoGen]
    /\ flashcards' = [flashcards EXCEPT ![t] = 0]
    /\ exc' = [exc EXCEPT ![t] = "none"]

\* an exception of kind e reaches `except Exception as e` of the loop body
Raise(t, e) ==
    /\ pc' = [pc EXCEPT ![t] = "handler"]
    /\ exc' = [exc EXCEPT ![t] = e]

\* PostgresDocumentRepo.update: writes every mapped field of the domain object
RepoUpdate(d, doc) ==
    /\ docStatus' = [docStatus EXCEPT ![d] = doc.status]
    /\ processedAt' = [processedAt EXCEPT ![d] = doc.processed_at]
    /\ errorMessage' = [errorMessage EXCEPT ![d] = doc.error_message]

\* PostgresDocumentRepo.get / _to_domain
RepoGet(d) ==
    [status |-> docStatus[d], processed_at |-> processedAt[d],
     error_message |-> errorMessage[d]]

\* Document.mark_processing / mark_completed / mark_failed
mark_processing(doc) == [doc EXCEPT !.status = "processing"]
mark_completed(doc) == [doc EXCEPT !.status = "completed", !.processed_at = TRUE]
mark_failed(doc, msg) == [doc EXCEPT !.status = "failed", !.error_message = msg]

(* ---------------------- process_documents_task ------------------------- *)

\* get_ai_provider(): the OpenAI and Anthropic constructors raise ValueError
\* when their API key is not configured (re-raised as AIProviderError)
get_ai_provider_raises == provider # "ollama" /\ ~configOk

\* a worker picks the message up; DocumentProcessorService is constructed and
\* process_documents is entered; an exception of the construction is caught by
\* `except Exception` of the task
TaskStart(t) ==
    /\ pc[t] = "queued"
    /\ IF get_ai_provider_raises
       THEN /\ pc' = [pc EXCEPT ![t] = "task_error"]
            /\ UNCHANGED <<idx, countBefore>>
       ELSE /\ pc' = [pc EXCEPT ![t] = "lookup"]
            /\ idx' = [idx EXCEPT ![t] = 1]
            /\ countBefore' = [countBefore EXCEPT ![t] = deckCardCount]
    /\ total_cards' = [total_cards EXCEPT ![t] = 0]
    /\ successful_documents' = [successful_documents EXCEPT ![t] = 0]
    /\ failed_documents' = [failed_documents EXCEPT ![t] = 0]
    /\ softExpired' = [softExpired EXCEPT ![t] = FALSE]
    /\ UNCHANGED <<validator, oauth, chunker, provider, configOk, deckExists, cleanup, countdown, dbVars, faults, retries, document, marked, gen,
                   flashcards, exc, timeouts>>

(* ------------------------ process_documents ---------------------------- *)

\* the idempotency check: a COMPLETED or PROCESSING document is skipped
IdempotencyGuard_OnlyCompleted(status) == status = "completed"
IdempotencyGuard(status) == status = "completed" \/ status = "processing"

\* (every skipped document is counted as successful)
CountedSuccessful_EverySkip(status) == TRUE

\* a document found COMPLETED is counted as successful
\* (`successful_documents += 1  # Count as successful since it's done`); one
\* found PROCESSING is not counted
CountedSuccessful(status) == status = "completed"

\* document_repo.get and the idempotency check
LookupEffect(t, raises, e) ==
    LET d == CurDoc(t)
    IN  IF raises
        THEN /\ Raise(t, e)
             /\ UNCHANGED <<idx, document, marked, gen, flashcards, counterVars,
                            dbVars>>
        ELSE /\ UNCHANGED dbVars
             /\ IF docStatus[d] = "absent"
                THEN /\ failed_documents' = [failed_documents EXCEPT ![t] = @ + 1]
                     /\ Advance(t)
                     /\ UNCHANGED <<total_cards, successful_documents>>
                ELSE IF IdempotencyGuard(docStatus[d])
                THEN /\ successful_documents' =
                            [successful_documents EXCEPT ![t] =
                                IF CountedSuccessful(docStatus[d]) THEN @ + 1 ELSE @]
                     /\ Advance(t)
                     /\ UNCHANGED <<total_cards, failed_documents>>
                ELSE /\ document' = [document EXCEPT ![t] = RepoGet(d)]
                     /\ pc' = [pc EXCEPT ![t] = "mark"]
                     /\ UNCHANGED <<idx, marked, gen, flashcards, exc, counterVars>>

Lookup(t) ==
    /\ pc[t] = "lookup"
    /\ \/ LookupEffect(t, FALSE, "none") /\ UNCHANGED faults
       \/ Fault /\ LookupEffect(t, TRUE, "db_error")
    /\ UNCHANGED <<validator, oauth, chunker, provider, configOk, deckExists, cleanup, countdown, retries, softExpired, timeouts, countBefore>>

\* document.mark_processing(); document_repo.update(document); session.commit()
\* how: "ok", "before" (update raises), "after" (the commit after update raises)
MarkProcessingWrite(t, how, e) ==
    LET d == CurDoc(t)
        doc == mark_processing(document[t])
    IN  /\ IF how = "before"
           THEN UNCHANGED <<docStatus, processedAt, errorMessage, marked, document>>
           ELSE /\ RepoUpdate(d, doc)
                /\ document' = [document EXCEPT ![t] = doc]
                /\ marked' = [marked EXCEPT ![t] = TRUE]
        /\ IF how = "ok"
           THEN pc' = [pc EXCEPT ![t] = "extract"] /\ UNCHANGED exc
           ELSE Raise(t, e)
        /\ UNCHANGED <<idx, gen, flashcards, counterVars, cardRows, deckCardCount>>

\* (a conditional update: write PROCESSING only if the stored status still
\* passes the guard, else skip the document)
MarkProcessingEffect_Conditional(t, how, e) ==
    IF IdempotencyGuard(docStatus[CurDoc(t)])
    THEN Advance(t) /\ UNCHANGED <<dbVars, counterVars>>
    ELSE MarkProcessingWrite(t, how, e)

\* lines 122-125 of process_documents: the write is not conditional on the
\* status stored at the time of the write
MarkProcessingEffect(t, how, e) == MarkProcessingWrite(t, how, e)

MarkProcessing(t) ==
    /\ pc[t] = "mark"
    /\ \/ MarkProcessingEffect(t, "ok", "none") /\ UNCHANGED faults
       \/ \E how \in {"before", "after"} :
             Fault /\ MarkProcessingEffect(t, how, "db_error")
    /\ UNCHANGED <<validator, oauth, chunker, provider, configOk, deckExists, cleanup, countdown, retries, softExpired, timeouts, countBefore>>

\* _extract_document_text: storage.get_file and extractor.extract; the text
\* decides whether the local provider chunks it (n = 0: one request)
ExtractEffect(t, raises, e, n) ==
    /\ IF raises
       THEN Raise(t, e) /\ UNCHANGED gen
       ELSE /\ pc' = [pc EXCEPT ![t] = "generate"]
            /\ gen' = [gen EXCEPT ![t] =
                         [NoGen EXCEPT !.n = n, !.chunk = IF n = 0 THEN 0 ELSE 1,
                                       !.attempt = 1]]
            /\ UNCHANGED exc
    /\ UNCHANGED <<idx, document, marked, flashcards, counterVars, dbVars>>

ExtractDocumentText(t) ==
    /\ pc[t] = "extract"
    /\ \/ /\ \E n \in (IF provider = "ollama" THEN 0..MaxChunks ELSE {0}) :
               ExtractEffect(t, FALSE, "none", n)
          /\ UNCHANGED faults
       \/ Fault /\ ExtractEffect(t, TRUE, "extraction_error", 0)
    /\ UNCHANGED <<validator, oauth, chunker, provider, configOk, deckExists, cleanup, countdown, retries, softExpired, timeouts, countBefore>>

(* --------------------------- AI providers ------------------------------ *)

\* outcomes of one transport call: a well-formed response with k valid cards,
\* a transport error, a response the validator rejects, or the soft time
\* limit signal arriving during the call
Outcomes ==
    [kind : {"neterr", "invalid"}, cards : {0}] \cup
    [kind : {"ok"}, cards : 1..MaxRespCards]
TimeoutOutcome == [kind |-> "timeout", cards |-> 0]

\* the exception that leaves the body of _generate_with_retry / _generate_single:
\* OpenAIError, AnthropicError and RequestException are re-raised as
\* AIProviderError, anything else is re-raised unchanged
BodyRaises(p, o) ==
    CASE o.kind = "neterr" -> "AIProviderError"
      [] o.kind = "invalid" -> "AIValidationError"
      [] OTHER -> "SoftTimeLimitExceeded"

\* the retry= predicate of the tenacity decorator of each provider
retry_if_exception_type(p, e) ==
    IF p = "ollama" THEN e = "RequestException" ELSE TRUE

\* generate_flashcards has returned or raised: its locals are gone, what is
\* left is how its last transport call ended
Returned(g) == [NoGen EXCEPT !.last = g.last, !.onlyTransport = g.onlyTransport]

\* one transport call of generate_flashcards and what the provider does with
\* its outcome (retry, next chunk, return, raise)
GenerateEffect(t, o) ==
    LET g == gen[t]
        isOk == o.kind = "ok"
        g1 == [g EXCEPT !.last = o.kind,
                        !.onlyTransport = @ /\ o.kind \in {"ok", "neterr"},
                        !.acc = IF isOk THEN @ + o.cards ELSE @]
        again == /\ ~isOk
                 /\ retry_if_exception_type(provider, BodyRaises(provider, o))
                 /\ g.attempt < stop_after_attempt
    IN  /\ IF again
           THEN /\ gen' = [gen EXCEPT ![t] = [g1 EXCEPT !.attempt = @ + 1]]
                /\ UNCHANGED <<pc, flashcards, exc>>
           ELSE IF g.n > 0
           THEN \* _generate_with_chunking: a failing chunk is skipped
                IF g.chunk = g.n \/ (isOk /\ g1.acc >= max_cards)
                THEN /\ gen' = [gen EXCEPT ![t] = Returned(g1)]
                     /\ flashcards' = [flashcards EXCEPT ![t] = Min(g1.acc, max_cards)]
                     /\ pc' = [pc EXCEPT ![t] = "persist"]
                     /\ UNCHANGED exc
                ELSE /\ gen' = [gen EXCEPT ![t] =
                                  [g1 EXCEPT !.chunk = @ + 1, !.attempt = 1]]
                     /\ UNCHANGED <<pc, flashcards, exc>>
           ELSE IF isOk
           THEN /\ gen' = [gen EXCEPT ![t] = Returned(g1)]
                /\ flashcards' = [flashcards EXCEPT ![t] = g1.acc]
                /\ pc' = [pc EXCEPT ![t] = "persist"]
                /\ UNCHANGED exc
           ELSE /\ gen' = [gen EXCEPT ![t] = Returned(g1)]
                /\ Raise(t, BodyRaises(provider, o))
                /\ UNCHANGED flashcards
        /\ UNCHANGED <<idx, document, marked, counterVars, dbVars>>

TransportCall(t) ==
    /\ pc[t] = "generate"
    /\ \E o \in Outcomes : GenerateEffect(t, o)
    /\ UNCHANGED <<validator, oauth, chunker, provider, configOk, deckExists, cleanup, countdown, faults, retries, softExpired, timeouts, countBefore>>

(* ------------------ process_documents, continued ----------------------- *)

\* PostgresCardRepo._update_deck_count
update_deck_count(count, increment) == Max(0, count + increment)

\* _create_flashcard_records: `created` of the cards are stored (a card whose
\* create raises is skipped), each create commits and bumps decks.card_count;
\* then the final commit
CreateEffect(t, created, raises, e) ==
    LET \* cards.deck_id references decks.id: without the deck row every
        \* create raises and the card is skipped
        stored == IF deckExists THEN created ELSE 0
    IN
    /\ cardRows' = cardRows + stored
    /\ deckCardCount' = update_deck_count(deckCardCount, stored)
    /\ IF raises
       THEN Raise(t, e) /\ UNCHANGED total_cards
       ELSE /\ total_cards' = [total_cards EXCEPT ![t] = @ + stored]
            /\ pc' = [pc EXCEPT ![t] = "complete"]
            /\ UNCHANGED exc
    /\ UNCHANGED <<idx, document, marked, gen, flashcards, successful_documents,
                   failed_documents, docStatus, processedAt, errorMessage>>

CreateFlashcardRecords(t) ==
    /\ pc[t] = "persist"
    /\ \/ CreateEffect(t, flashcards[t], FALSE, "none") /\ UNCHANGED faults
       \/ /\ Fault
          /\ \/ \E created \in 0..(flashcards[t] - 1) :
                    CreateEffect(t, created, FALSE, "none")
             \/ CreateEffect(t, flashcards[t], TRUE, "db_error")
    /\ UNCHANGED <<validator, oauth, chunker, provider, configOk, deckExists, cleanup, countdown, retries, softExpired, timeouts, countBefore>>

\* document.mark_completed(deck_id); document_repo.update(document);
\* session.commit(); successful_documents += 1
MarkCompletedEffect(t, how, e) ==
    LET d == CurDoc(t)
        doc == mark_completed(document[t])
    IN  /\ IF how = "before"
           THEN UNCHANGED <<docStatus, processedAt, errorMessage>>
           ELSE RepoUpdate(d, doc)
        /\ IF how = "ok"
           THEN /\ successful_documents' = [successful_documents EXCEPT ![t] = @ + 1]
                /\ Advance(t)
           ELSE /\ Raise(t, e)
                /\ document' = [document EXCEPT ![t] =
                                  IF how = "after" THEN doc ELSE @]
                /\ UNCHANGED <<successful_documents, idx, marked, gen, flashcards>>
        /\ UNCHANGED <<total_cards, failed_documents, cardRows, deckCardCount>>

MarkCompleted(t) ==
    /\ pc[t] = "complete"
    /\ \/ MarkCompletedEffect(t, "ok", "none") /\ UNCHANGED faults
       \/ \E how \in {"before", "after"} :
             Fault /\ MarkCompletedEffect(t, how, "db_error")
    /\ UNCHANGED <<validator, oauth, chunker, provider, configOk, deckExists, cleanup, countdown, retries, softExpired, timeouts, countBefore>>

\* str(e) of the exception, as stored in error_message
StrOf(e) == "str(e)"

\* the except block of the loop body: re-read the document, mark_failed(str(e)),
\* update, commit; a failure of these is logged and swallowed;
\* failed_documents += 1
MarkFailedEffect(t, written) ==
    LET d == CurDoc(t)
    IN  /\ IF written /\ docStatus[d] # "absent"
           THEN RepoUpdate(d, mark_failed(RepoGet(d), StrOf(exc[t])))
           ELSE UNCHANGED <<docStatus, processedAt, errorMessage>>
        /\ failed_documents' = [failed_documents EXCEPT ![t] = @ + 1]
        /\ Advance(t)
        /\ UNCHANGED <<total_cards, successful_documents, cardRows, deckCardCount>>

MarkFailed(t) ==
    /\ pc[t] = "handler"
    /\ \/ MarkFailedEffect(t, TRUE) /\ UNCHANGED faults
       \/ Fault /\ MarkFailedEffect(t, FALSE)
    /\ UNCHANGED <<validator, oauth, chunker, provider, configOk, deckExists, cleanup, countdown, retries, softExpired, timeouts, countBefore>>

\* after the loop: if total_cards > 0 and the deck is found,
\* deck.card_count += total_cards (errors are logged and swallowed; a deck
\* that is not found is passed over)
UpdateDeckEffect(t, done) ==
    /\ deckCardCount' = IF done /\ total_cards[t] > 0 /\ deckExists
                        THEN deckCardCount + total_cards[t]
                        ELSE deckCardCount
    /\ pc' = [pc EXCEPT ![t] = "result"]
    /\ UNCHANGED <<docStatus, processedAt, errorMessage, cardRows, localVars,
                   counterVars>>

UpdateDeckCardCount(t) ==
    /\ pc[t] = "deck"
    /\ \/ UpdateDeckEffect(t, TRUE) /\ UNCHANGED faults
       \/ total_cards[t] > 0 /\ Fault /\ UpdateDeckEffect(t, FALSE)
    /\ UNCHANGED <<validator, oauth, chunker, provider, configOk, deckExists, cleanup, countdown, retries, softExpired, timeouts, countBefore>>

\* process_documents returns its ProcessingResult; the task returns its dict
TaskReturn(t) ==
    /\ pc[t] = "result"
    /\ pc' = [pc EXCEPT ![t] = "done"]
    /\ idx' = [idx EXCEPT ![t] = 0]
    /\ total_cards' = [total_cards EXCEPT ![t] = 0]
    /\ successful_documents' = [successful_documents EXCEPT ![t] = 0]
    /\ failed_documents' = [failed_documents EXCEPT ![t] = 0]
    /\ countBefore' = [countBefore EXCEPT ![t] = 0]
    /\ softExpired' = [softExpired EXCEPT ![t] = FALSE]
    /\ UNCHANGED <<validator, oauth, chunker, provider, configOk, deckExists, cleanup, countdown, dbVars, faults, retries, document, marked, gen,
                   flashcards, exc, timeouts>>

(* ------------------------- soft time limit ----------------------------- *)

\* an exception leaves process_documents and asyncio.run
Propagate(t, handlerPc) ==
    /\ pc' = [pc EXCEPT ![t] = handlerPc]
    /\ UNCHANGED <<dbVars, localVars, counterVars>>

\* SoftTimeLimitExceeded is raised in the task's thread at whatever statement
\* it is executing; the innermost enclosing `except Exception` catches it
SoftTimeLimit(t) ==
    /\ ~softExpired[t]
    /\ timeouts < MaxTimeouts
    /\ timeouts' = timeouts + 1
    /\ softExpired' = [softExpired EXCEPT ![t] = TRUE]
    /\ \/ /\ pc[t] = "lookup"
          /\ LookupEffect(t, TRUE, "SoftTimeLimitExceeded")
       \/ /\ pc[t] = "mark"
          /\ \E how \in {"before", "after"} :
                MarkProcessingEffect(t, how, "SoftTimeLimitExceeded")
       \/ /\ pc[t] = "extract"
          /\ ExtractEffect(t, TRUE, "SoftTimeLimitExceeded", 0)
       \/ /\ pc[t] = "generate"
          /\ GenerateEffect(t, TimeoutOutcome)
       \/ /\ pc[t] = "persist"
          /\ \/ /\ flashcards[t] > 0
                /\ CreateEffect(t, flashcards[t] - 1, FALSE, "none")
             \/ CreateEffect(t, flashcards[t], TRUE, "SoftTimeLimitExceeded")
       \/ /\ pc[t] = "complete"
          /\ \/ /\ MarkCompletedEffect(t, "before", "SoftTimeLimitExceeded")
             \/ /\ MarkCompletedEffect(t, "after", "SoftTimeLimitExceeded")
       \/ /\ pc[t] = "handler"
          /\ \/ Propagate(t, "soft_timeout")
             \/ MarkFailedEffect(t, FALSE)
       \/ /\ pc[t] = "deck"
          /\ \/ Propagate(t, "soft_timeout")
             \/ total_cards[t] > 0 /\ UpdateDeckEffect(t, FALSE)
       \/ /\ pc[t] = "result"
          /\ Propagate(t, "soft_timeout")
    /\ UNCHANGED <<validator, oauth, chunker, provider, configOk, deckExists, cleanup, countdown, faults, retries, countBefore>>

\* PostgresDocumentRepo.get(self, doc_id, user_id): a call that leaves a
\* parameter unbound raises TypeError
get_parameters == {"doc_id", "user_id"}
CallGet(args, d) ==
    IF args = get_parameters
    THEN RepoGet(d)
    ELSE [status |-> "TypeError", processed_at |-> FALSE, error_message |-> "none"]

\* the timeout handler calls document_repo.get(UUID(doc_id))
timeout_handler_args == {"doc_id"}

\* the documents the timeout handler marks: `doc and doc.status == PROCESSING`
\* (an exception of the lookup is logged and the document skipped)
TimeoutMarked ==
    {d \in Docs : CallGet(timeout_handler_args, d).status = "processing"}

\* countdown = 60 * (2 ** self.request.retries)
Countdown(r) == 60 * (2 ^ r)

\* (a retry that is refused only once retries exceeds max_retries)
RetryAllowed_OffByOne(r) == r <= max_retries

\* Task.retry: the message is sent again while retries < max_retries, else the
\* exception is raised and the task ends in failure
RetryAllowed(r) == r < max_retries

\* raise self.retry(exc=..., countdown=countdown)
Retry(t) ==
    /\ IF RetryAllowed(retries[t])
       THEN /\ pc' = [pc EXCEPT ![t] = "queued"]
            /\ retries' = [retries EXCEPT ![t] = @ + 1]
            /\ countdown' = [countdown EXCEPT ![t] = Countdown(retries[t])]
       ELSE /\ pc' = [pc EXCEPT ![t] = "failed"]
            /\ UNCHANGED <<retries, countdown>>
    /\ idx' = [idx EXCEPT ![t] = 0]
    /\ document' = [document EXCEPT ![t] = NoDocument]
    /\ marked' = [marked EXCEPT ![t] = FALSE]
    /\ gen' = [gen EXCEPT ![t] = NoGen]
    /\ flashcards' = [flashcards EXCEPT ![t] = 0]
    /\ exc' = [exc EXCEPT ![t] = "none"]
    /\ total_cards' = [total_cards EXCEPT ![t] = 0]
    /\ successful_documents' = [successful_documents EXCEPT ![t] = 0]
    /\ failed_documents' = [failed_documents EXCEPT ![t] = 0]
    /\ countBefore' = [countBefore EXCEPT ![t] = 0]
    /\ softExpired' = [softExpired EXCEPT ![t] = FALSE]

\* except SoftTimeLimitExceeded: mark the PROCESSING documents FAILED, commit,
\* retry with countdown 60 * 2 ** retries
TimeoutHandler(t) ==
    /\ pc[t] = "soft_timeout"
    /\ docStatus' = [d \in Docs |->
                       IF d \in TimeoutMarked THEN "failed" ELSE docStatus[d]]
    /\ errorMessage' = [d \in Docs |->
                          IF d \in TimeoutMarked
                          THEN "Processing timeout exceeded (10 minutes)"
                          ELSE errorMessage[d]]
    /\ Retry(t)
    /\ UNCHANGED <<validator, oauth, chunker, provider, configOk, deckExists, cleanup, processedAt, cardRows,
                   deckCardCount, faults, timeouts>>

\* except Exception of the task: log, update_state, retry with countdown
\* 60 * 2 ** retries; the documents are not touched
TaskExceptionHandler(t) ==
    /\ pc[t] = "task_error"
    /\ Retry(t)
    /\ UNCHANGED <<validator, oauth, chunker, provider, configOk, deckExists, cleanup, dbVars, faults, timeouts>>

(* -------------------- cleanup_orphaned_files_task ----------------------- *)

\* the classes app.db.models defines, and the name the task imports from it
db_models == {"UserModel", "DeckModel", "CardModel", "TopicModel", "DocumentModel",
              "UserFCMTokenModel", "NotificationModel", "CardReviewModel",
              "StudySessionModel", "DeckCommentModel", "CommentVoteModel"}
cleanup_import == "Document"

\* the columns of DocumentModel, and the attribute the task reads the path from
document_columns == {"id", "user_id", "filename", "file_path", "status", "deck_id",
                     "processed_at", "error_message", "created_at", "updated_at"}
cleanup_path_attribute == "storage_path"

\* the documents of `old` (created before the cutoff) the task assigns
\* status = "CLEANED" to: the FAILED ones whose file deletion does not raise
CleanupAssigned(old) ==
    IF cleanup_import \in db_models
    THEN {d \in old : docStatus[d] = "failed"
                      /\ cleanup_path_attribute \in document_columns}
    ELSE {}

\* the task leaves its try block by an exception: the import fails, or
\* db.commit() refuses a status the column's SQLEnum(DocumentStatus) lacks
CleanupRaises(old) ==
    \/ cleanup_import \notin db_models
    \/ CleanupAssigned(old) # {} /\ "cleaned" \notin DocumentStatus

\* (the assignment reaches the table whatever the column accepts)
CleanupCommitted_Unchecked(old) ==
    [d \in Docs |-> IF d \in old /\ docStatus[d] = "failed"
                    THEN "cleaned" ELSE docStatus[d]]

\* documents.status after the task: db.commit() on success, db.rollback() in
\* `except Exception`
CleanupCommitted(old) ==
    [d \in Docs |-> IF ~CleanupRaises(old) /\ d \in CleanupAssigned(old)
                    THEN "cleaned" ELSE docStatus[d]]

\* one run of the task; on an exception self.retry(countdown=300) while
\* retries < max_retries
CleanupOrphanedFilesTask ==
    /\ cleanup.pc = "scheduled"
    /\ \E old \in SUBSET Docs :
          /\ docStatus' = CleanupCommitted(old)
          /\ cleanup' = IF ~CleanupRaises(old)
                        THEN [cleanup EXCEPT !.pc = "done"]
                        ELSE IF cleanup.retries < cleanup_max_retries
                        THEN [cleanup EXCEPT !.retries = @ + 1]
                        ELSE [cleanup EXCEPT !.pc = "failed"]
    /\ UNCHANGED <<validator, oauth, chunker, provider, configOk, deckExists, countdown, processedAt,
                   errorMessage, cardRows, deckCardCount, faults, pc, retries,
                   localVars, counterVars, softExpired, timeouts, countBefore>>

Next ==
    \E t \in Execs :
        \/ TaskStart(t)
        \/ Lookup(t)
        \/ MarkProcessing(t)
        \/ ExtractDocumentText(t)
        \/ TransportCall(t)
        \/ CreateFlashcardRecords(t)
        \/ MarkCompleted(t)
        \/ MarkFailed(t)
        \/ UpdateDeckCardCount(t)
        \/ TaskReturn(t)
        \/ SoftTimeLimit(t)
        \/ TimeoutHandler(t)
        \/ TaskExceptionHandler(t)

Spec == Init /\ [][Next]_vars

\* the same task message delivered to several workers at nearly the same
\* instant (no injected faults, no time limit expiry)
InitRace ==
    /\ provider \in Providers
    /\ docStatus \in [Docs -> {"uploaded", "absent"}]
    /\ processedAt = [d \in Docs |-> FALSE]
    /\ errorMessage = [d \in Docs |-> "none"]
    /\ cardRows = 0
    /\ deckCardCount = 0
    /\ faults = MaxFaults
    /\ timeouts = MaxTimeouts
    /\ pc = [t \in Execs |-> "queued"]
    /\ retries = [t \in Execs |-> 0]
    /\ idx = [t \in Execs |-> 0]
    /\ document = [t \in Execs |-> NoDocument]
    /\ marked = [t \in Execs |-> FALSE]
    /\ gen = [t \in Execs |-> NoGen]
    /\ flashcards = [t \in Execs |-> 0]
    /\ exc = [t \in Execs |-> "none"]
    /\ total_cards = [t \in Execs |-> 0]
    /\ successful_documents = [t \in Execs |-> 0]
    /\ failed_documents = [t \in Execs |-> 0]
    /\ softExpired = [t \in Execs |-> FALSE]
    /\ countBefore = [t \in Execs |-> 0]
    /\ configOk = TRUE
    /\ deckExists = TRUE
    /\ countdown = [t \in Execs |-> 0]
    /\ cleanup = NoCleanup
    /\ chunker = NoChunker
    /\ validator = NoValidator
    /\ oauth = NoOAuth

NextRace ==
    \E t \in Execs :
        \/ TaskStart(t)
        \/ Lookup(t)
        \/ MarkProcessing(t)
        \/ ExtractDocumentText(t)
        \/ TransportCall(t)
        \/ CreateFlashcardRecords(t)
        \/ MarkCompleted(t)
        \/ MarkFailed(t)
        \/ UpdateDeckCardCount(t)
        \/ TaskReturn(t)

SpecRace == InitRace /\ [][NextRace]_vars

\* the processing task and the periodic cleanup task side by side (the time
\* limit may expire; no storage or database fault is injected)
InitCleanup ==
    /\ provider \in Providers
    /\ docStatus \in [Docs -> {"uploaded", "absent"}]
    /\ processedAt = [d \in Docs |-> FALSE]
    /\ errorMessage = [d \in Docs |-> "none"]
    /\ cardRows = 0
    /\ deckCardCount = 0
    /\ faults = MaxFaults
    /\ timeouts = 0
    /\ pc = [t \in Execs |-> IF t = 1 THEN "queued" ELSE "idle"]
    /\ retries = [t \in Execs |-> 0]
    /\ idx = [t \in Execs |-> 0]
    /\ document = [t \in Execs |-> NoDocument]
    /\ marked = [t \in Execs |-> FALSE]
    /\ gen = [t \in Execs |-> NoGen]
    /\ flashcards = [t \in Execs |-> 0]
    /\ exc = [t \in Execs |-> "none"]
    /\ total_cards = [t \in Execs |-> 0]
    /\ successful_documents = [t \in Execs |-> 0]
    /\ failed_documents = [t \in Execs |-> 0]
    /\ softExpired = [t \in Execs |-> FALSE]
    /\ countBefore = [t \in Execs |-> 0]
    /\ configOk \in (IF provider = "ollama" THEN {TRUE} ELSE BOOLEAN)
    /\ deckExists \in BOOLEAN
    /\ countdown = [t \in Execs |-> 0]
    /\ cleanup = [pc |-> "scheduled", retries |-> 0]
    /\ chunker = NoChunker
    /\ validator = NoValidator
    /\ oauth = NoOAuth

NextCleanup == Next \/ CleanupOrphanedFilesTask

SpecCleanup == InitCleanup /\ [][NextCleanup]_vars

(* ------------- OllamaProvider: chunking a large document --------------- *)

\* lengths len(page_text) the units of a document are drawn from
PageSizes == {0, 5734, 11468, 11469}

\* max_chunk_chars = int(self.max_context_tokens * 0.7 * 4)
max_chunk_chars == (max_context_tokens * 7 * 4) \div 10

\* "\n\n".join(texts): a text is the sequence of the unit texts it is made of
\* (unit k of page_data is written k), the separator "\n\n" is written 0
RECURSIVE Join(_)
Join(texts) ==
    IF Len(texts) <= 1 THEN texts
    ELSE <<Head(texts), 0>> \o Join(Tail(texts))

\* len(text) of a text built from the units of page_data
RECURSIVE TextLen(_, _)
TextLen(text, page_data) ==
    IF text = <<>> THEN 0
    ELSE (IF Head(text) = 0 THEN 2 ELSE page_data[Head(text)])
         + TextLen(Tail(text), page_data)

\* DocumentExtractor: document_text joins the units whose text is not empty
DocumentText(page_data) ==
    Join(SelectSeq([k \in 1..Len(page_data) |-> k], LAMBDA k : page_data[k] > 0))

\* _needs_chunking: len(text) / 4 > max_context_tokens * 0.7
needs_chunking(text, page_data) ==
    TextLen(text, page_data) * 10 > max_context_tokens * 7 * 4

\* (the chunk is closed as soon as the budget is reached)
ClosesChunk_AtBudget(ck, page_size) ==
    /\ ck.current_size + page_size >= max_chunk_chars
    /\ ck.current_chunk_text # <<>>

\* `if current_size + page_size > max_chunk_chars and current_chunk_text`
ClosesChunk(ck, page_size) ==
    /\ ck.current_size + page_size > max_chunk_chars
    /\ ck.current_chunk_text # <<>>

\* the body of `for page_num, page_text in page_data` of _chunk_document
ChunkPage ==
    /\ chunker.pc = "chunking"
    /\ chunker.pos <= Len(chunker.page_data)
    /\ LET ck == chunker
           page_size == ck.page_data[ck.pos]
           flush == ClosesChunk(ck, page_size)
           ck1 == IF flush
                  THEN [ck EXCEPT
                          !.chunks = Append(@, [text |-> Join(ck.current_chunk_text),
                                                pages |-> ck.current_chunk_pages]),
                          !.current_chunk_text = <<>>,
                          !.current_chunk_pages = <<>>,
                          !.current_size = 0]
                  ELSE ck
       IN  chunker' = [ck1 EXCEPT !.current_chunk_text = Append(@, ck.pos),
                                  !.current_chunk_pages = Append(@, ck.pos),
                                  !.current_size = @ + page_size,
                                  !.pos = @ + 1]
    /\ UNCHANGED <<validator, oauth, mainVars>>

\* (the chunk under construction is dropped when the loop ends)
RemainingChunk_Dropped(ck) == ck.chunks

\* "Add remaining chunk": if current_chunk_text: chunks.append(...)
RemainingChunk(ck) ==
    IF ck.current_chunk_text # <<>>
    THEN Append(ck.chunks, [text |-> Join(ck.current_chunk_text),
                            pages |-> ck.current_chunk_pages])
    ELSE ck.chunks

\* the end of _chunk_document: the list of chunks is returned
ChunkReturn ==
    /\ chunker.pc = "chunking"
    /\ chunker.pos > Len(chunker.page_data)
    /\ chunker' = [chunker EXCEPT !.chunks = RemainingChunk(chunker),
                                  !.current_chunk_text = <<>>,
                                  !.current_chunk_pages = <<>>,
                                  !.current_size = 0,
                                  !.pc = "chunked"]
    /\ UNCHANGED <<validator, oauth, mainVars>>

\* cards_per_chunk = max(1, max_cards // len(chunks))
cards_per_chunk(ck) == Max(1, ck.max_cards \div Len(ck.chunks))

\* _generate_with_chunking up to its loop; max_cards // 0 raises
\* ZeroDivisionError
ChunkedStart ==
    /\ chunker.pc = "chunked"
    /\ chunker' = IF Len(chunker.chunks) = 0
                  THEN [chunker EXCEPT !.pc = "raised"]
                  ELSE [chunker EXCEPT !.pc = "generating", !.i = 1]
    /\ UNCHANGED <<validator, oauth, mainVars>>

\* (the loop goes on to the last chunk whatever has been collected)
StopAfter_NeverBreaks(ck, ok, all) == ck.i = Len(ck.chunks)

\* the loop ends after this chunk: `if len(all_flashcards) >= max_cards: break`
\* (reached only when the chunk succeeded), or the chunks are used up
StopAfter(ck, ok, all) ==
    \/ ok /\ Len(all) >= ck.max_cards
    \/ ck.i = Len(ck.chunks)

\* (the collected cards are returned as they are)
Truncated_Not(all, n) == all

\* all_flashcards[:max_cards]
Truncated(all, n) == SubSeq(all, 1, Min(Len(all), n))

\* one iteration of the loop of _generate_with_chunking: _generate_single is
\* called for chunk i and returns k cards or raises (k = 0); card j of
\* chunk i is written <<i, j>>
ChunkCall ==
    /\ chunker.pc = "generating"
    /\ \E k \in 0..MaxChunkCards :
          LET ck == chunker
              ok == k > 0
              all == IF ok
                     THEN ck.all_flashcards \o [j \in 1..k |-> <<ck.i, j>>]
                     ELSE ck.all_flashcards
              ck1 == [ck EXCEPT !.all_flashcards = all,
                                !.calls = Append(@, [chunk |-> ck.i,
                                                    max_cards |-> cards_per_chunk(ck),
                                                    cards |-> k])]
          IN  chunker' = IF StopAfter(ck, ok, all)
                         THEN [ck1 EXCEPT !.pc = "returned",
                                          !.result = Truncated(all, ck.max_cards)]
                         ELSE [ck1 EXCEPT !.i = @ + 1]
    /\ UNCHANGED <<validator, oauth, mainVars>>

\* process_documents_task is not running: nothing is queued
TaskIdle ==
    /\ provider = "ollama"
    /\ docStatus = [d \in Docs |-> "uploaded"]
    /\ processedAt = [d \in Docs |-> FALSE]
    /\ errorMessage = [d \in Docs |-> "none"]
    /\ cardRows = 0
    /\ deckCardCount = 0
    /\ faults = 0
    /\ timeouts = 0
    /\ pc = [t \in Execs |-> "idle"]
    /\ retries = [t \in Execs |-> 0]
    /\ idx = [t \in Execs |-> 0]
    /\ document = [t \in Execs |-> NoDocument]
    /\ marked = [t \in Execs |-> FALSE]
    /\ gen = [t \in Execs |-> NoGen]
    /\ flashcards = [t \in Execs |-> 0]
    /\ exc = [t \in Execs |-> "none"]
    /\ total_cards = [t \in Execs |-> 0]
    /\ successful_documents = [t \in Execs |-> 0]
    /\ failed_documents = [t \in Execs |-> 0]
    /\ softExpired = [t \in Execs |-> FALSE]
    /\ countBefore = [t \in Execs |-> 0]
    /\ configOk = TRUE
    /\ deckExists = TRUE
    /\ countdown = [t \in Execs |-> 0]
    /\ cleanup = NoCleanup

\* a unit list and a max_cards handed to the local provider's chunked
\* generation; the task is not running
InitChunk ==
    /\ \E n \in 0..MaxPages : \E pd \in [1..n -> PageSizes] :
       \E m \in 1..MaxCardsArg :
          chunker = [NoChunker EXCEPT !.pc = "chunking", !.page_data = pd,
                                      !.max_cards = m, !.pos = 1]
    /\ TaskIdle
    /\ validator = NoValidator
    /\ oauth = NoOAuth

NextChunk ==
    \/ ChunkPage
    \/ ChunkReturn
    \/ ChunkedStart
    \/ ChunkCall

SpecChunk == InitChunk /\ [][NextChunk]_vars

(* ------------- parse_flashcard_response: the response validator -------- *)

\* A text is a sequence of pieces: "sp" is a white-space character, "doc" the
\* document name spelled as in document_name, "DOC" the same name in another
\* letter case, "w" a word that does not mention the name; "-", "Page" and
\* "Unknown" are the pieces of the literals of the code.
PieceLen(a) ==
    CASE a = "sp" -> 1
      [] a = "-" -> 1
      [] a = "w" -> 2
      [] a \in {"Page", "page"} -> 4
      [] a \in {"Unknown", "unknown"} -> 7
      [] OTHER -> DocNameLen

\* len(s)
RECURSIVE StrLen(_)
StrLen(s) == IF s = <<>> THEN 0 ELSE PieceLen(Head(s)) + StrLen(Tail(s))

RECURSIVE lstrip(_)
lstrip(s) == IF s # <<>> /\ Head(s) = "sp" THEN lstrip(Tail(s)) ELSE s

RECURSIVE rstrip(_)
rstrip(s) ==
    IF s # <<>> /\ s[Len(s)] = "sp" THEN rstrip(SubSeq(s, 1, Len(s) - 1)) ELSE s

\* str.strip()
strip(s) == rstrip(lstrip(s))

\* str.lower()
lower(s) ==
    [k \in 1..Len(s) |-> CASE s[k] = "DOC" -> "doc"
                           [] s[k] = "Page" -> "page"
                           [] s[k] = "Unknown" -> "unknown"
                           [] OTHER -> s[k]]

\* sub in s
Contains(sub, s) ==
    \E k \in 0..(Len(s) - Len(sub)) : SubSeq(s, k + 1, k + Len(sub)) = sub

\* document.filename, handed over as document_name
document_name == <<"doc">>

\* f"{document_name} - Page Unknown"
DefaultSource == document_name \o <<"sp", "-", "sp", "Page", "sp", "Unknown">>

\* a field of a candidate: not in the object, a JSON value that is not a
\* string (null, a number), or a string
Absent == [kind |-> "absent", text |-> <<>>]
NotAString == [kind |-> "other", text |-> <<>>]
Str(s) == [kind |-> "str", text |-> s]

Questions == {Absent, NotAString, Str(<<"sp">>), Str(<<"sp", "w", "sp">>)}
Answers == {Absent, Str(<<>>), Str(<<"w", "sp">>)}
Sources == {Absent, NotAString, Str(<<"sp">>), Str(<<"sp", "w", "sp", "w", "sp">>),
            Str(<<"doc", "sp", "w">>), Str(<<"sp", "DOC", "sp", "w">>)}

\* an entry of data["flashcards"]: a JSON object with some of the three
\* fields, or a JSON value that is not an object
Candidates ==
    [object : {TRUE}, question : Questions, answer : Answers, source : Sources]
    \cup {[object |-> FALSE, question |-> Absent, answer |-> Absent, source |-> Absent]}

\* what json.loads(response_text) gives: "not_json" raises JSONDecodeError,
\* "scalar" is a number / null / true, "no_field" an object without
\* "flashcards", "not_iterable" an object whose "flashcards" is null or a
\* number, "list" an object whose "flashcards" is a list of candidates
Responses ==
    {[kind |-> k, flashcards |-> <<>>] :
        k \in {"not_json", "scalar", "no_field", "not_iterable"}}
    \cup {[kind |-> "list", flashcards |-> cs] :
            cs \in UNION {[1..n -> Candidates] : n \in 0..MaxCandidates}}

\* FlashcardData.__post_init__ raises ValueError
post_init_raises(question, answer, source) ==
    \/ strip(question) = <<>>
    \/ strip(answer) = <<>>
    \/ strip(source) = <<>>
    \/ StrLen(strip(source)) < min_source_len

\* (the source is kept as the backend wrote it)
Attributed_NoPrefix(source) == source

\* "Validate source includes document name": the comparison is made on the
\* lower-cased texts
Attributed(source) ==
    IF ~Contains(lower(document_name), lower(source))
    THEN document_name \o <<"sp", "-", "sp">> \o source
    ELSE source

\* (the text is kept as the backend wrote it)
FieldText_Raw(s) == s

\* question=card_data["question"].strip(), answer=card_data["answer"].strip()
FieldText(s) == strip(s)

\* the body of the loop over data["flashcards"] for one candidate: the
\* FlashcardData built from it, or skip (continue, or an exception caught by
\* the except of the loop: a field that is not a string has no strip())
FlashcardOf(c) ==
    LET skip == [ok |-> FALSE, card |-> [question |-> <<>>, answer |-> <<>>, source |-> <<>>]]
        src == IF c.source.kind = "absent" \/ strip(c.source.text) = <<>>
               THEN DefaultSource
               ELSE c.source.text
        source == Attributed(strip(src))
    IN  IF ~c.object THEN skip
        ELSE IF c.question.kind = "absent" THEN skip
        ELSE IF c.answer.kind = "absent" THEN skip
        ELSE IF c.source.kind = "other" THEN skip
        ELSE IF c.question.kind = "other" \/ c.answer.kind = "other" THEN skip
        ELSE IF post_init_raises(FieldText(c.question.text), FieldText(c.answer.text), source)
        THEN skip
        ELSE [ok |-> TRUE,
              card |-> [question |-> FieldText(c.question.text),
                        answer |-> FieldText(c.answer.text),
                        source |-> source]]

\* json.loads and `if "flashcards" not in data`; `in` raises TypeError on a
\* number or null, and so does enumerate() of a value that is not iterable
ParseJson ==
    /\ validator.pc = "parse"
    /\ LET kind == validator.response.kind
       IN  validator' =
              CASE kind \in {"not_json", "no_field"} ->
                      [validator EXCEPT !.pc = "raised", !.exc = "AIValidationError"]
                [] kind \in {"scalar", "not_iterable"} ->
                      [validator EXCEPT !.pc = "raised", !.exc = "TypeError"]
                [] OTHER -> [validator EXCEPT !.pc = "loop", !.i = 1]
    /\ UNCHANGED <<oauth, chunker, mainVars>>

\* one iteration of `for i, card_data in enumerate(data["flashcards"])`
ParseCandidate ==
    /\ validator.pc = "loop"
    /\ validator.i <= Len(validator.response.flashcards)
    /\ LET r == FlashcardOf(validator.response.flashcards[validator.i])
       IN  validator' =
              IF r.ok
              THEN [validator EXCEPT !.flashcards = Append(@, r.card),
                                     !.kept = Append(@, validator.i),
                                     !.i = @ + 1]
              ELSE [validator EXCEPT !.i = @ + 1]
    /\ UNCHANGED <<oauth, chunker, mainVars>>

\* `if not flashcards: raise AIValidationError`, else return flashcards
ParseReturn ==
    /\ validator.pc = "loop"
    /\ validator.i > Len(validator.response.flashcards)
    /\ validator' = IF validator.flashcards = <<>>
                    THEN [validator EXCEPT !.pc = "raised", !.exc = "AIValidationError"]
                    ELSE [validator EXCEPT !.pc = "returned"]
    /\ UNCHANGED <<oauth, chunker, mainVars>>

\* a response text handed to the validator; the task is not running
InitValidate ==
    /\ \E r \in Responses : validator = [NoValidator EXCEPT !.pc = "parse", !.response = r]
    /\ TaskIdle
    /\ chunker = NoChunker
    /\ oauth = NoOAuth

NextValidate ==
    \/ ParseJson
    \/ ParseCandidate
    \/ ParseReturn

SpecValidate == InitValidate /\ [][NextValidate]_vars

(* ------------- OAuthStateManager: single-use state tokens -------------- *)

\* request handlers that call the state manager concurrently
Clients == {1, 2}
\* the values secrets.token_urlsafe(32) can give; 0 is the empty state
\* ("" or None) a caller may hand to validate_state
Tokens == 1..MaxTokens
EmptyState == 0

NoCall == [pc |-> "idle", state |-> EmptyState, result |-> FALSE]

\* (the key is looked up and left in place)
RedisDelete_KeepsKey(keys, key) == keys

\* self._redis.delete(key): the key is removed; the reply is the number of
\* keys removed
RedisDelete(keys, key) == keys \ {key}

\* a Redis command fails: the exception is raised to the caller
RedisFault == oauth.faults < MaxRedisFaults

\* generate_state: a fresh token is stored with setex and returned; when
\* setex raises, RuntimeError is raised (the key may or may not be stored)
GenerateState ==
    /\ oauth.pc = "on"
    /\ \E state \in Tokens \ oauth.generated :
          \/ oauth' = [oauth EXCEPT !.keys = @ \cup {state},
                                    !.generated = @ \cup {state}]
          \/ /\ RedisFault
             /\ \E stored \in BOOLEAN :
                   oauth' = [oauth EXCEPT
                               !.keys = IF stored THEN @ \cup {state} ELSE @,
                               !.generated = @ \cup {state},
                               !.faults = @ + 1]
    /\ UNCHANGED <<validator, chunker, mainVars>>

\* the TTL given to setex runs out: Redis removes the key
Expire ==
    /\ oauth.pc = "on"
    /\ \E state \in oauth.keys : oauth' = [oauth EXCEPT !.keys = @ \ {state}]
    /\ UNCHANGED <<validator, chunker, mainVars>>

\* validate_state(state) up to the Redis command: `if not state: return False`
ValidateState(c) ==
    /\ oauth.pc = "on"
    /\ oauth.call[c].pc = "idle"
    /\ \E state \in Tokens \cup {EmptyState} :
          oauth' = IF state = EmptyState
                   THEN [oauth EXCEPT !.call[c] = [pc |-> "returned", state |-> state,
                                                   result |-> FALSE]]
                   ELSE [oauth EXCEPT !.call[c] = [pc |-> "delete", state |-> state,
                                                   result |-> FALSE]]
    /\ UNCHANGED <<validator, chunker, mainVars>>

\* result = self._redis.delete(key); result == 0 returns False, otherwise
\* True; an exception returns False (the key may or may not be removed)
ValidateDelete(c) ==
    /\ oauth.pc = "on"
    /\ oauth.call[c].pc = "delete"
    /\ LET state == oauth.call[c].state
           result == IF state \in oauth.keys THEN 1 ELSE 0
       IN  \/ oauth' = [oauth EXCEPT
                          !.keys = RedisDelete(@, state),
                          !.call[c].pc = "returned",
                          !.call[c].result = (result # 0),
                          !.accepted[state] = IF result # 0 THEN @ + 1 ELSE @]
           \/ /\ RedisFault
              /\ \E removed \in BOOLEAN :
                    oauth' = [oauth EXCEPT
                                !.keys = IF removed THEN RedisDelete(@, state) ELSE @,
                                !.call[c].pc = "returned",
                                !.call[c].result = FALSE,
                                !.faults = @ + 1]
    /\ UNCHANGED <<validator, chunker, mainVars>>

\* the caller has the return value and may call again
ValidateDone(c) ==
    /\ oauth.pc = "on"
    /\ oauth.call[c].pc = "returned"
    /\ oauth' = [oauth EXCEPT !.call[c] = NoCall]
    /\ UNCHANGED <<validator, chunker, mainVars>>

\* a state manager on an empty Redis; the task is not running
InitOAuth ==
    /\ oauth = [pc |-> "on", keys |-> {}, generated |-> {},
                call |-> [c \in Clients |-> NoCall],
                accepted |-> [state \in Tokens |-> 0], faults |-> 0]
    /\ TaskIdle
    /\ validator = NoValidator
    /\ chunker = NoChunker

NextOAuth ==
    \/ GenerateState
    \/ Expire
    \/ \E c \in Clients : ValidateState(c)
    \/ \E c \in Clients : ValidateDelete(c)
    \/ \E c \in Clients : ValidateDone(c)

SpecOAuth == InitOAuth /\ [][NextOAuth]_vars

(* ============================== claims ================================= *)

\* execution t takes a step of its own
Steps(t) == <<pc[t], idx[t], gen[t]>> # <<pc'[t], idx'[t], gen'[t]>>

\* execution t leaves the per-document block of the document it is at
LeavesBlock(t) == idx[t] \in 1..NumDocs /\ idx'[t] = idx[t] + 1

\* C1: when a processing attempt that wrote PROCESSING leaves the per-document
\* block, the stored status of the document is COMPLETED or FAILED, and
\* processed_at is set if and only if the status is COMPLETED.
C1_TerminalStatusAfterAttempt ==
    [][\A t \in Execs :
          (marked[t] /\ LeavesBlock(t)) =>
              LET d == document_ids[idx[t]]
              IN  /\ docStatus'[d] \in {"completed", "failed"}
                  /\ (processedAt'[d] <=> docStatus'[d] = "completed")]_vars

\* C2: when the soft time limit handler of the task has run, every document
\* of the batch that was PROCESSING is FAILED with the timeout message, so no
\* document of the batch is left PROCESSING.
C2_TimeoutHandlerFailsProcessing ==
    [][\A t \in Execs :
          (pc[t] = "soft_timeout" /\ pc'[t] # "soft_timeout") =>
              \A d \in Docs :
                  docStatus[d] = "processing" =>
                      /\ docStatus'[d] = "failed"
                      /\ errorMessage'[d] = "Processing timeout exceeded (10 minutes)"]_vars

\* C3: when process_documents returns its result, the deck's card_count is its
\* value at entry plus total_cards (and unchanged when total_cards is 0).
C3_DeckCountIncrementedByTotal ==
    \A t \in Execs :
        pc[t] = "result" => deckCardCount = countBefore[t] + total_cards[t]

C5_FailureIsolatedAndRecorded ==
    [][\A t \in Execs :
          /\ (/\ pc[t] \in {"lookup", "mark", "extract", "persist", "complete"}
              /\ Steps(t) /\ faults' = faults + 1)
             => pc'[t] = "handler"
          /\ (/\ pc[t] = "handler" /\ Steps(t) /\ timeouts' = timeouts
              /\ exc[t] # "SoftTimeLimitExceeded")
             => /\ LeavesBlock(t)
                /\ failed_documents'[t] = failed_documents[t] + 1
                /\ docStatus[document_ids[idx[t]]] # "absent" =>
                      /\ docStatus'[document_ids[idx[t]]] = "failed"
                      /\ errorMessage'[document_ids[idx[t]]] # "none"]_vars

\* C6: the PROCESSING write does not depend on the status stored at the time
\* of the write: an execution that passed the guard always writes PROCESSING
\* and goes on to extraction, whatever another execution has written since.
C6_WriteIgnoresStoredStatus ==
    [][\A t \in Execs :
          (pc[t] = "mark" /\ Steps(t) /\ faults' = faults /\ timeouts' = timeouts)
             => /\ pc'[t] = "extract"
                /\ docStatus'[document_ids[idx[t]]] = "processing"]_vars

\* witness of C6: both executions passed the guard for the same document and
\* both have extracted it, generated cards and stored them
C6_Witness ==
    /\ pc[1] = "complete" /\ pc[2] = "complete"
    /\ idx[1] = idx[2]
    /\ flashcards[1] > 0 /\ flashcards[2] > 0
    /\ cardRows >= flashcards[1] + flashcards[2]

\* C7: for every provider a transport failure is surfaced to the orchestrator
\* only after the 3rd attempt of the request.
C7_TransportErrorRetriedThreeTimes ==
    [][\A t \in Execs :
          (pc[t] = "generate" /\ pc'[t] = "handler" /\ exc'[t] = "AIProviderError")
             => gen[t].attempt = stop_after_attempt]_vars

\* C8: a soft time limit that expires while a document is in flight (after
\* its PROCESSING write, before its terminal write) is handled by the task's
\* timeout handler.
C8_TimeoutHandledAtTaskLevel ==
    [][\A t \in Execs :
          (/\ ~softExpired[t] /\ softExpired'[t]
           /\ marked[t]
           /\ pc[t] \in {"extract", "generate", "persist", "complete", "handler"})
             => pc'[t] = "soft_timeout"]_vars

\* C9: if no transport call of a document's generation succeeded (all of them
\* failed in the transport), the document leaves the block FAILED and counted
\* in failed_documents (stated for runs without injected faults or timeouts).
C9_TransportFailureFailsDocument ==
    [][\A t \in Execs :
          (/\ LeavesBlock(t)
           /\ gen[t].last = "neterr" /\ flashcards[t] = 0 /\ gen[t].onlyTransport
           /\ faults' = 0 /\ timeouts' = 0)
             => /\ docStatus'[document_ids[idx[t]]] = "failed"
                /\ failed_documents'[t] = failed_documents[t] + 1]_vars

\* C10: after a response that fails validation the provider issues no further
\* transport call for that generation request (any next call is the first
\* attempt of another chunk's request).
C10_ValidationErrorNotRetried ==
    \A t \in Execs :
        (pc[t] = "generate" /\ gen[t].last = "invalid") => gen[t].attempt = 1

\* the statements of the loop body of process_documents
BodyPcs == {"lookup", "mark", "extract", "generate", "persist", "complete", "handler"}

\* C11: the handler of a non-timeout exception of the task changes no
\* document; while retries < max_retries it re-queues the task with countdown
\* 60, 120, 240 for retries 0, 1, 2, else the task ends failed and stays so;
\* retries never exceeds max_retries (the body runs at most 4 times).
C11_GenericRetryBounded ==
    [][\A t \in Execs :
          /\ (pc[t] = "task_error" /\ pc'[t] # "task_error")
                => /\ dbVars' = dbVars
                   /\ IF retries[t] < 3
                      THEN /\ pc'[t] = "queued"
                           /\ retries'[t] = retries[t] + 1
                           /\ countdown'[t] = CASE retries[t] = 0 -> 60
                                                 [] retries[t] = 1 -> 120
                                                 [] OTHER -> 240
                      ELSE pc'[t] = "failed" /\ retries'[t] = retries[t]
          /\ retries'[t] <= 3
          /\ pc[t] = "failed" => pc'[t] = "failed"]_vars

\* witness of C11: the task was rescheduled three times, the last time with
\* countdown 240, ran a fourth time and ended failed
C11_Witness ==
    \E t \in Execs : pc[t] = "failed" /\ retries[t] = 3 /\ countdown[t] = 240

\* C12: an attempt that has written PROCESSING for its document writes the
\* status once more and no further: each of its status writes turns PROCESSING
\* into COMPLETED or FAILED (never COMPLETED into FAILED or the reverse).
C12_WritesMonotonicPerAttempt ==
    [][\A t \in Execs :
          (pc[t] \in BodyPcs /\ Steps(t) /\ marked[t]
           /\ docStatus'[CurDoc(t)] # docStatus[CurDoc(t)])
             => /\ docStatus[CurDoc(t)] = "processing"
                /\ docStatus'[CurDoc(t)] \in {"completed", "failed"}]_vars

\* C13: a document that is COMPLETED, and that no attempt in progress has
\* written, keeps its status in every later step (of a later invocation, a
\* retry or the timeout handler).
C13_TerminalStatusKept ==
    [][\A d \in Docs :
          (/\ docStatus[d] = "completed"
           /\ ~(\E t \in Execs : marked[t] /\ pc[t] \in BodyPcs /\ CurDoc(t) = d))
             => docStatus'[d] = docStatus[d]]_vars

C15_ConfigErrorNotRetried ==
    [][\A t \in Execs :
          (pc[t] = "task_error" /\ get_ai_provider_raises)
             => /\ pc'[t] \in {"task_error", "failed"}
                /\ retries'[t] = retries[t]
                /\ dbVars' = dbVars]_vars

\* C16: process_documents returns normally only if the target deck is found
\* (a missing deck makes it raise), and nothing but the time limit makes an
\* exception leave the loop body.
C16_RaisesOnlyForMissingDeck ==
    [][\A t \in Execs :
          /\ (pc[t] = "deck" /\ pc'[t] = "result") => deckExists
          /\ (pc[t] \in BodyPcs /\ pc'[t] \in {"soft_timeout", "task_error"})
                => timeouts' = timeouts + 1]_vars

\* _chunk_document has returned
Chunked == chunker.pc \in {"chunked", "generating", "returned", "raised"}

\* C17: no chunk's text is longer than max_chunk_chars =
\* int(max_context_tokens * 0.7 * 4), and a document that triggers chunking
\* is split into at least two chunks.
C17_ChunksWithinBudget ==
    Chunked =>
       /\ \A c \in 1..Len(chunker.chunks) :
             TextLen(chunker.chunks[c].text, chunker.page_data) <= max_chunk_chars
       /\ needs_chunking(DocumentText(chunker.page_data), chunker.page_data)
             => Len(chunker.chunks) >= 2

RECURSIVE ChunkPagesFrom(_, _)
ChunkPagesFrom(chunks, c) ==
    IF c > Len(chunks) THEN <<>>
    ELSE chunks[c].pages \o ChunkPagesFrom(chunks, c + 1)

\* C18: chunking loses nothing: the chunk_pages of the chunks, concatenated
\* in order, are the input unit list, and each chunk's text is the join of
\* its own units' texts (the units in order, one separator between two).
C18_ChunkingLosesNothing ==
    Chunked =>
       /\ ChunkPagesFrom(chunker.chunks, 1) = [k \in 1..Len(chunker.page_data) |-> k]
       /\ \A c \in 1..Len(chunker.chunks) :
             LET ch == chunker.chunks[c]
             IN  /\ ch.pages # <<>>
                 /\ Len(ch.text) = 2 * Len(ch.pages) - 1
                 /\ \A k \in 1..Len(ch.text) :
                       ch.text[k] = IF k % 2 = 1 THEN ch.pages[(k + 1) \div 2] ELSE 0

C18_Witness ==
    /\ Chunked
    /\ Len(chunker.chunks) = 2
    /\ Len(chunker.chunks[1].pages) = 2
    /\ Len(chunker.chunks[2].pages) = 1

\* the card lists of the calls from call k on, in call order
RECURSIVE CardsOfCalls(_, _)
CardsOfCalls(calls, k) ==
    IF k > Len(calls) THEN <<>>
    ELSE [j \in 1..calls[k].cards |-> <<calls[k].chunk, j>>]
         \o CardsOfCalls(calls, k + 1)

\* C19: the result of a chunked generation is the concatenation, in chunk
\* order, of the card lists of the chunks that succeeded, truncated to
\* max_cards; it never holds more than max_cards cards.
C19_ResultIsTruncatedConcatenation ==
    chunker.pc = "returned" =>
       LET all == CardsOfCalls(chunker.calls, 1)
       IN  /\ Len(chunker.result) <= chunker.max_cards
           /\ Len(chunker.result) = Min(Len(all), chunker.max_cards)
           /\ \A j \in 1..Len(chunker.result) : chunker.result[j] = all[j]

C19_Witness ==
    /\ chunker.pc = "returned"
    /\ \E k \in 1..Len(chunker.calls) : chunker.calls[k].cards = 0
    /\ Len(chunker.all_flashcards) > chunker.max_cards
    /\ Len(chunker.result) = chunker.max_cards

\* the number of cards collected after the first k calls
CollectedAfter(k) == Len(CardsOfCalls(SubSeq(chunker.calls, 1, k), 1))

\* C20: the chunks are called strictly in order, one at a time, each with
\* the budget max(1, floor(max_cards / chunk count)); the chunks attempted
\* are the shortest prefix after which max_cards cards are collected, or all
\* of them; a chunk that fails adds no card and does not stop later chunks.
C20_PrefixOfChunksInOrder ==
    chunker.pc \in {"generating", "returned"} =>
       /\ \A k \in 1..Len(chunker.calls) :
             /\ chunker.calls[k].chunk = k
             /\ chunker.calls[k].max_cards =
                   Max(1, chunker.max_cards \div Len(chunker.chunks))
       /\ Len(chunker.calls) <= Len(chunker.chunks)
       /\ \A k \in 1..(Len(chunker.calls) - 1) : CollectedAfter(k) < chunker.max_cards
       /\ chunker.pc = "generating" => chunker.i = Len(chunker.calls) + 1
       /\ chunker.pc = "returned" =>
             \/ Len(chunker.calls) = Len(chunker.chunks)
             \/ CollectedAfter(Len(chunker.calls)) >= chunker.max_cards
       /\ Len(chunker.all_flashcards) = CollectedAfter(Len(chunker.calls))

C20_Witness ==
    /\ chunker.pc = "returned"
    /\ Len(chunker.chunks) = 3
    /\ Len(chunker.calls) = 2
    /\ chunker.calls[1].cards = 0
    /\ chunker.calls[2].cards > 0

\* the validator has returned or raised
Validated == validator.pc \in {"returned", "raised"}

\* C21 (as stated): every FlashcardData returned by the validator for
\* document name D has a non-empty source that contains D.
C21_SourceContainsName ==
    validator.pc = "returned" =>
       \A k \in 1..Len(validator.flashcards) :
          /\ validator.flashcards[k].source # <<>>
          /\ Contains(document_name, validator.flashcards[k].source)

\* C21 (amended): every FlashcardData returned by the validator has a
\* non-empty source that contains the document name up to letter case.
C21_SourceMentionsName ==
    validator.pc = "returned" =>
       \A k \in 1..Len(validator.flashcards) :
          /\ validator.flashcards[k].source # <<>>
          /\ Contains(lower(document_name), lower(validator.flashcards[k].source))

\* a card whose source had to be prefixed and one whose source names the
\* document in another letter case have been returned
C21_Witness ==
    /\ validator.pc = "returned"
    /\ Len(validator.flashcards) = 2
    /\ validator.response.flashcards[1].source = Str(<<"sp", "w", "sp", "w", "sp">>)
    /\ validator.flashcards[1].source = <<"doc", "sp", "-", "sp", "w", "sp", "w">>
    /\ validator.response.flashcards[2].source = Str(<<"sp", "DOC", "sp", "w">>)

\* question, answer and source are all present as strings
AllPresent(c) ==
    /\ c.object
    /\ c.question.kind = "str"
    /\ c.answer.kind = "str"
    /\ c.source.kind = "str"

\* C22 (as stated): a response whose card sequence holds N well-formed
\* candidates (question, answer and source all present) gives exactly N
\* FlashcardData whose question and answer are the candidates' texts.
C22_RoundTripUnchanged ==
    LET cs == validator.response.flashcards
    IN  (Validated /\ validator.response.kind = "list" /\ Len(cs) > 0
           /\ \A k \in 1..Len(cs) : AllPresent(cs[k]))
        => /\ validator.pc = "returned"
           /\ Len(validator.flashcards) = Len(cs)
           /\ \A k \in 1..Len(cs) :
                 /\ validator.flashcards[k].question = cs[k].question.text
                 /\ validator.flashcards[k].answer = cs[k].answer.text

\* question and answer are strings that are not blank, source is a string
WellFormed(c) ==
    /\ AllPresent(c)
    /\ \E k \in 1..Len(c.question.text) : c.question.text[k] # "sp"
    /\ \E k \in 1..Len(c.answer.text) : c.answer.text[k] # "sp"

\* the text without the white space before and after it
Trimmed(s) ==
    IF \A k \in 1..Len(s) : s[k] = "sp" THEN <<>>
    ELSE LET first == CHOOSE k \in 1..Len(s) :
                         s[k] # "sp" /\ \A j \in 1..(k - 1) : s[j] = "sp"
             last == CHOOSE k \in 1..Len(s) :
                         s[k] # "sp" /\ \A j \in (k + 1)..Len(s) : s[j] = "sp"
         IN  SubSeq(s, first, last)

\* C22 (amended): a response whose card sequence holds N candidates whose
\* question and answer are non-blank strings and whose source is a string
\* gives exactly N FlashcardData, in order, whose question and answer are
\* the candidates' texts without their surrounding white space.
C22_RoundTripTrimmed ==
    LET cs == validator.response.flashcards
    IN  (Validated /\ validator.response.kind = "list" /\ Len(cs) > 0
           /\ \A k \in 1..Len(cs) : WellFormed(cs[k]))
        => /\ validator.pc = "returned"
           /\ Len(validator.flashcards) = Len(cs)
           /\ \A k \in 1..Len(cs) :
                 /\ validator.flashcards[k].question = Trimmed(cs[k].question.text)
                 /\ validator.flashcards[k].answer = Trimmed(cs[k].answer.text)

C22_Witness ==
    /\ validator.pc = "returned"
    /\ Len(validator.response.flashcards) = 2
    /\ \A k \in 1..2 : WellFormed(validator.response.flashcards[k])
    /\ validator.response.flashcards[1].source # validator.response.flashcards[2].source

\* C23: the validator fails exactly when the response is not parseable as
\* JSON, the 'flashcards' field is missing or no valid candidate remains,
\* and then with AIValidationError and no other error type; a candidate
\* without question or answer is skipped and does not make the call fail
\* while a valid candidate remains.
C23_FailsOnlyWithValidationError ==
    Validated =>
       /\ validator.pc = "raised" => validator.exc = "AIValidationError"
       /\ validator.pc = "raised" <=>
             \/ validator.response.kind # "list"
             \/ validator.flashcards = <<>>
       /\ (\E k \in 1..Len(validator.response.flashcards) :
              WellFormed(validator.response.flashcards[k]))
             => validator.pc = "returned"

\* the position in the result of the card made from candidate k
RECURSIVE PlaceOf(_, _, _)
PlaceOf(kept, k, from) ==
    IF from > Len(kept) THEN 0
    ELSE IF kept[from] = k THEN from
    ELSE PlaceOf(kept, k, from + 1)

\* the candidate is an object whose question and answer are non-blank strings
HasQuestionAndAnswer(c) ==
    /\ c.object
    /\ c.question.kind = "str" /\ Trimmed(c.question.text) # <<>>
    /\ c.answer.kind = "str" /\ Trimmed(c.answer.text) # <<>>

\* C24: a candidate with question and answer whose source is missing or
\* blank is returned with source "<documentName> - Page Unknown"; one whose
\* source does not mention documentName is returned with "<documentName> - "
\* before its source; a source that mentions documentName is returned as it
\* is (surrounding white space apart).
C24_SourceSynthesized ==
    LET cs == validator.response.flashcards
    IN  (Validated /\ validator.response.kind = "list") =>
           \A k \in 1..Len(cs) :
              HasQuestionAndAnswer(cs[k]) =>
                 LET place == PlaceOf(validator.kept, k, 1)
                     src == Trimmed(cs[k].source.text)
                 IN  /\ place > 0
                     /\ validator.flashcards[place].source =
                           IF cs[k].source.kind # "str" \/ src = <<>>
                           THEN <<"doc", "sp", "-", "sp", "Page", "sp", "Unknown">>
                           ELSE IF \E j \in 1..Len(src) : src[j] \in {"doc", "DOC"}
                           THEN src
                           ELSE <<"doc", "sp", "-", "sp">> \o src

\* C25: OAuth state tokens are single-use: whatever the interleaving of
\* generate_state and validate_state calls, validate_state returns True at
\* most once for a generated token, and returns False for an empty token, a
\* token never generated, an expired or consumed token, and when the Redis
\* command fails.
C25_StateTokenSingleUse ==
    [][\A c \in Clients :
         (oauth.call[c].pc # "returned" /\ oauth'.call[c].pc = "returned")
         => LET state == oauth'.call[c].state
            IN  IF /\ state # EmptyState
                   /\ state \in oauth.generated
                   /\ state \in oauth.keys
                   /\ oauth'.faults = oauth.faults
                THEN /\ oauth'.call[c].result
                     /\ oauth.accepted[state] = 0
                     /\ state \notin oauth'.keys
                ELSE ~oauth'.call[c].result]_vars

\* a token has been accepted once and a second validation of it refused
C25_Witness ==
    /\ oauth.pc = "on"
    /\ \E state \in Tokens : \E c \in Clients :
          /\ oauth.accepted[state] = 1
          /\ oauth.call[c].pc = "returned"
          /\ oauth.call[c].state = state
          /\ ~oauth.call[c].result

\* process_documents_task and all of its retries have ended
TaskEnded == \A t \in Execs : pc[t] \in {"idle", "done", "failed"}

\* C26: once process_documents_task and all of its retries have ended, no
\* document of the batch is left PROCESSING: every document some attempt
\* marked PROCESSING has become COMPLETED or FAILED.
C26_NoDocumentLeftProcessing ==
    TaskEnded => \A d \in Docs : docStatus[d] # "processing"

\* C27: cards are persisted only for documents whose attempt ends COMPLETED:
\* an attempt that ends FAILED leaves none of its cards in the deck and adds
\* none to ProcessingResult.total_cards. So a first invocation in which no
\* document was successful has stored no card and reports no card.
C27_NoCardsFromFailedAttempt ==
    \A t \in Execs :
       (pc[t] = "result" /\ retries[t] = 0 /\ successful_documents[t] = 0)
       => total_cards[t] = 0 /\ cardRows = 0

RECURSIVE UnitSizes(_, _)
UnitSizes(pages, page_data) ==
    IF pages = <<>> THEN 0
    ELSE page_data[Head(pages)] + UnitSizes(Tail(pages), page_data)

\* C30: chunk packing is greedy over consecutive units: every chunk is
\* non-empty; for every chunk but the last, the summed unit sizes of the
\* chunk plus the size of the first unit of the next chunk exceed
\* max_chunk_chars; a non-empty trailing chunk is always emitted.
C30_GreedyPacking ==
    Chunked =>
       LET cs == chunker.chunks
           pd == chunker.page_data
       IN  /\ \A c \in 1..Len(cs) : cs[c].pages # <<>> /\ cs[c].text # <<>>
           /\ \A c \in 1..(Len(cs) - 1) :
                 UnitSizes(cs[c].pages, pd) + pd[Head(cs[c + 1].pages)]
                    > max_chunk_chars
           /\ pd # <<>> =>
                 /\ cs # <<>>
                 /\ LET last == cs[Len(cs)].pages
                    IN  last[Len(last)] = Len(pd)

\* two units that fill the budget exactly share a chunk, the third unit
\* opens the trailing chunk
C30_Witness ==
    /\ Chunked
    /\ chunker.page_data = <<5734, 5734, 5734>>
    /\ Len(chunker.chunks) = 2


====
